---------------------------- MODULE Spec2Model ----------------------------
(***************************************************************************)
(* Verification subsystem of the identity service:                         *)
(*   - SchemaExtensionVerification (Run / has / Finish), the reconciler of *)
(*     an identity's verifiable addresses;                                 *)
(*   - VerificationToken (NewSelfServiceVerificationToken, GetCode,        *)
(*     VerifyTokenCode, Valid);                                            *)
(*   - Handler.knownCredentials, the credential discovery probe, in its    *)
(*     two revisions (src/unnamed/part_001 and src/identity/handler.go).   *)
(* Each part has its own specification over the shared variables.          *)
(***************************************************************************)
EXTENDS Integers, Sequences, FiniteSets, TLC

VARIABLES
    \* ---- SchemaExtensionVerification ----
    VerifiableAddresses,  \* r.i.VerifiableAddresses, the identity's list
    v,                    \* r.v, the accumulator of the current pass
    traits,               \* the trait fields the validator visits, in order
    visit,                \* index of the next field of traits to visit
    pass,                 \* number of the current validation pass
    rphase,               \* "run" while fields are visited, "finished" after Finish
    runErr,               \* what the last Run returned
    pre,                  \* history: the identity's list when the pass began
    finals,               \* history: the identity's list after each Finish
    \* ---- VerificationToken ----
    now,                  \* time.Now().Unix(), in seconds
    codeSecret,           \* the service-wide secret handed to GetCode and VerifyTokenCode
    token,                \* the VerificationToken of the flow, or NoToken
    issued,               \* the last code GetCode returned and the token it was for, or NoCode
    last,                 \* the last call on the token and what it returned
    \* ---- Handler.knownCredentials ----
    request,              \* the last request: its body
    answers,              \* what the identity pool answered, or would have answered
    response,             \* what the handler wrote, and the lookups it performed
    \* ---- concurrent Run calls on one SchemaExtensionVerification ----
    lock,                 \* r.l: 0 when free, else the thread that holds it
    pc,                   \* where each thread is in its Run call
    calls,                \* the field each thread calls Run with
    local                 \* each thread's locals: what it decided to append, the r.v it loaded

rvars == <<VerifiableAddresses, v, traits, visit, pass, rphase, runErr, pre, finals>>

tvars == <<now, codeSecret, token, issued, last>>

pvars == <<request, answers, response>>

cvars == <<lock, pc, calls, local>>

vars == <<rvars, tvars, pvars, cvars>>

-----------------------------------------------------------------------------
(* Bounds of the model *)

MaxFields == 3
MaxPre == 2
MaxPasses == 2
FirstDay == 18937
MaxDays == 3
StepsPerDay == 2
MaxProviders == 2
MaxIdentifiers == 2
MaxThreads == 2

-----------------------------------------------------------------------------
(* SchemaExtensionVerification *)

\* The trait values a field may carry. "A@x.io" differs from "a@x.io" only in
\* case; "nope" is not an email.
Values == {"a@x.io", "A@x.io", "b@x.io", "nope"}

\* Whether the value passes jsonschema.Formats["email"].
IsEmail(value) == value # "nope"

\* normalized(value): lower-casing, on Values.
Normalize(value) == IF value = "A@x.io" THEN "a@x.io" ELSE value

VerifiableAddressTypeEmail == "email"

\* NewVerifiableEmailAddress(value, r.i.ID): a fresh, unverified address.
NewVerifiableEmailAddress(value) ==
    [value |-> Normalize(value), via |-> VerifiableAddressTypeEmail, verified |-> FALSE]

\* The fields of a trait document: schema.ExtensionConfig.Verification.Via and
\* the field's value. The value of a field that is not an email field is never read.
Fields ==
    {[via |-> "email", value |-> x] : x \in Values}
        \cup {[via |-> "", value |-> "a@x.io"], [via |-> "sms", value |-> "a@x.io"]}

\* The addresses an identity may hold before a pass.
Addresses ==
    [value : {"a@x.io", "b@x.io"}, via : {VerifiableAddressTypeEmail}, verified : BOOLEAN]

SeqsUpTo(S, n) == UNION {[1..k -> S] : k \in 0..n}

\* r.has: the first entry of haystack with the needle's value and via, as <<entry>>;
\* <<>> is nil.
has(haystack, needle) ==
    IF \E k \in 1..Len(haystack) :
          haystack[k].value = needle.value /\ haystack[k].via = needle.via
    THEN LET first == CHOOSE k \in 1..Len(haystack) :
                 /\ haystack[k].value = needle.value /\ haystack[k].via = needle.via
                 /\ \A j \in 1..(k - 1) :
                       ~(haystack[j].value = needle.value /\ haystack[j].via = needle.via)
         IN <<haystack[first]>>
    ELSE <<>>

\* Mutant: the pre-existing entry is not reused, the fresh address is appended.
RunEmailFresh(existing, pending, value) ==
    LET address == NewVerifiableEmailAddress(value)
    IN IF has(pending, address) = <<>> THEN Append(pending, address) ELSE pending

\* Mutant: the accumulator is not searched before appending.
RunEmailNoDedup(existing, pending, value) ==
    LET address == NewVerifiableEmailAddress(value)
        found == has(existing, address)
    IN IF found # <<>> THEN Append(pending, found[1]) ELSE Append(pending, address)

\* Mutant: a reused pre-existing entry is not carried over.
RunEmailDropReused(existing, pending, value) ==
    LET address == NewVerifiableEmailAddress(value)
        found == has(existing, address)
    IN IF found # <<>>
       THEN pending
       ELSE IF has(pending, address) = <<>> THEN Append(pending, address) ELSE pending

\* Run, case "email" after the format check: the accumulator it leaves.
RunEmail(existing, pending, value) ==
    LET address == NewVerifiableEmailAddress(value)
        found == has(existing, address)
    IN IF found # <<>>
       THEN IF has(pending, address) = <<>> THEN Append(pending, found[1]) ELSE pending
       ELSE IF has(pending, address) = <<>> THEN Append(pending, address) ELSE pending

\* Mutant: the format of an email field is not reported.
RunErrorNoFormat(s, value) ==
    CASE s = "email" -> "nil"
      [] s = ""      -> "nil"
      [] OTHER       -> "unknown via"

\* What Run returns for a field: "nil" or the violation.
RunError(s, value) ==
    CASE s = "email" -> IF IsEmail(value) THEN "nil" ELSE "format"
      [] s = ""      -> "nil"
      [] OTHER       -> "unknown via"

\* Mutant: Run stores the accumulator in the identity as it goes.
RunPublishing ==
    /\ rphase = "run"
    /\ visit <= Len(traits)
    /\ LET s == traits[visit].via
           value == traits[visit].value
       IN /\ runErr' = RunError(s, value)
          /\ v' = IF s = "email" /\ IsEmail(value)
                  THEN RunEmail(VerifiableAddresses, v, value)
                  ELSE v
    /\ VerifiableAddresses' = v'
    /\ visit' = visit + 1
    /\ UNCHANGED <<traits, pass, rphase, pre, finals, tvars, pvars, cvars>>

\* Run(ctx, s, value) on the next field of the trait document, under r.l.
Run ==
    /\ rphase = "run"
    /\ visit <= Len(traits)
    /\ LET s == traits[visit].via
           value == traits[visit].value
       IN /\ runErr' = RunError(s, value)
          /\ v' = IF s = "email" /\ IsEmail(value)
                  THEN RunEmail(VerifiableAddresses, v, value)
                  ELSE v
    /\ visit' = visit + 1
    /\ UNCHANGED <<VerifiableAddresses, traits, pass, rphase, pre, finals, tvars, pvars, cvars>>

\* Mutant: Finish appends the accumulator to the identity's list.
FinishAppend(old, pending) == old \o pending

\* Finish: the identity's list after r.i.VerifiableAddresses = r.v.
FinishList(old, pending) == pending

\* Finish(), called once every field of the pass has been visited.
Finish ==
    /\ rphase = "run"
    /\ visit > Len(traits)
    /\ VerifiableAddresses' = FinishList(VerifiableAddresses, v)
    /\ finals' = Append(finals, VerifiableAddresses')
    /\ rphase' = "finished"
    /\ UNCHANGED <<v, traits, visit, pass, runErr, pre, tvars, pvars, cvars>>

\* NewSchemaExtensionVerification(i, lifespan) for the next validation pass of the
\* same identity over the same, unchanged traits.
NewSchemaExtensionVerification ==
    /\ rphase = "finished"
    /\ pass < MaxPasses
    /\ v' = <<>>
    /\ visit' = 1
    /\ pass' = pass + 1
    /\ rphase' = "run"
    /\ runErr' = "nil"
    /\ pre' = VerifiableAddresses
    /\ UNCHANGED <<VerifiableAddresses, traits, finals, tvars, pvars, cvars>>

-----------------------------------------------------------------------------
(* VerificationToken *)

\* The time step of the one-time code: gotp.NewTOTP(..., 6, 86400, nil).
Interval == 86400

\* Seconds of a day without a change of the local zone's UTC offset.
Day == 86400

\* What a daylight-saving transition adds to or takes from a calendar day.
DSTShift == Day \div 24

\* How far the clock of the model advances in one step.
TickStep == Interval \div StepsPerDay

Times == {d * Day + k * TickStep : d \in FirstDay..(FirstDay + MaxDays - 1), k \in 0..(StepsPerDay - 1)}

\* gotp.RandomSecret(16): 16 characters of the base32 alphabet.
CodeTokens == {"Z24AFRFBNW4PXNTQ", "VH5DGCKL3YUZSBTC", "KVR2SQRLEZVOMODQ"}

\* randx.MustString(32, randx.AlphaNum).
LinkTokens == {"q7Zk0p9wX1bV8n3cT5mH2yR4dL6sJ0aG"}

\* The service-wide secrets (base32).
CodeSecrets == {"JBSWY3DPEHPK3PXP", "GEZDGNBVGY3TQOJQ"}

\* The durations a token is created with.
ExpiresIn == {0 - TickStep, 0, TickStep}

\* The UTC offset now minus the UTC offset one calendar day earlier, in the zone of
\* time.Now(): 0 in a zone without daylight saving (UTC), -DSTShift within a day
\* after the clocks were set back, DSTShift within a day after they were set forward.
OffsetChanges == {0 - DSTShift, 0, DSTShift}

NoToken == [Token |-> "", ExpiresAt |-> 0, IssuedAt |-> 0]
NoCode == [code |-> "", Token |-> ""]

\* A code no key of HOTPTable yields in the windows of the model.
WrongCode == "000000"

combineSecret(secret, tok) == tok \o secret

\* The first time step HOTPTable holds.
TableBase == 18932

\* HMAC-SHA1 one-time codes of 6 digits (RFC 4226, as gotp's generateOTP computes
\* them) of each combined secret, for the counters TableBase, TableBase + 1, ...
HOTPTable ==
    ("Z24AFRFBNW4PXNTQJBSWY3DPEHPK3PXP" :> <<"756008", "223064", "447745", "946468", "959516", "530262", "465463", "435648", "140802", "049362", "953927", "605743", "060115", "871758", "833978", "526705">>) @@
    ("VH5DGCKL3YUZSBTCJBSWY3DPEHPK3PXP" :> <<"191580", "114620", "879501", "160803", "803343", "117587", "465463", "981902", "120698", "803151", "966981", "984256", "262702", "537943", "342154", "318800">>) @@
    ("KVR2SQRLEZVOMODQJBSWY3DPEHPK3PXP" :> <<"712814", "416869", "967672", "186361", "134366", "965394", "334086", "961007", "248299", "731237", "104979", "161228", "801757", "517160", "821437", "659964">>) @@
    ("Z24AFRFBNW4PXNTQGEZDGNBVGY3TQOJQ" :> <<"903759", "856334", "719587", "698680", "313867", "813543", "792010", "072773", "902698", "391939", "290650", "814446", "182569", "070273", "621701", "904092">>) @@
    ("VH5DGCKL3YUZSBTCGEZDGNBVGY3TQOJQ" :> <<"422532", "152346", "041012", "503429", "831180", "356907", "504820", "350767", "780512", "830867", "835448", "071196", "757750", "895041", "100912", "394178">>) @@
    ("KVR2SQRLEZVOMODQGEZDGNBVGY3TQOJQ" :> <<"954561", "253728", "728995", "797121", "805796", "689091", "386014", "531222", "685462", "949105", "793053", "057775", "472378", "851826", "122727", "000383">>)

\* totp.At(timestamp): the code of the time step timestamp / interval.
TOTPAt(key, timestamp) == HOTPTable[key][(timestamp \div Interval) - TableBase + 1]

\* totp.Verify(code, timestamp).
TOTPVerify(key, code, timestamp) == code = TOTPAt(key, timestamp)

\* time.Now().AddDate(0, 0, -1).Unix(): the same wall-clock time on the previous
\* calendar day of the local zone.
AddDateMinusOneDay(t, offsetChange) == t - Day + offsetChange

\* Mutant: the code is checked against every token of the service, not the one given.
VerifyAnyToken(secret, tok, code, t, offsetChange) ==
    \E other \in CodeTokens :
        \/ TOTPVerify(combineSecret(secret, other), code, t)
        \/ TOTPVerify(combineSecret(secret, other), code, AddDateMinusOneDay(t, offsetChange))

\* VerifyTokenCode(codeSecret, token, code) at time t in a zone with offsetChange.
VerifyTokenCode(secret, tok, code, t, offsetChange) ==
    IF TOTPVerify(combineSecret(secret, tok), code, t)
    THEN TRUE
    ELSE IF TOTPVerify(combineSecret(secret, tok), code, AddDateMinusOneDay(t, offsetChange))
         THEN TRUE
         ELSE FALSE

\* Mutant: a token is expired from the instant ExpiresAt on.
ExpiredFromExpiresAt(f, t) == f.ExpiresAt <= t

\* Valid: whether f.ExpiresAt.Before(time.Now().UTC()), the flow-expired error.
Expired(f, t) == f.ExpiresAt < t

\* What a call that is not VerifyTokenCode leaves in last.
Called(op, ok) ==
    [op |-> op, Token |-> "", code |-> "", offsetChange |-> 0, ok |-> ok, expiredAt |-> 0]

\* NewSelfServiceVerificationToken(useCode, address, f, expiresIn).
NewSelfServiceVerificationToken(useCode, expiresIn) ==
    \E tok \in (IF useCode THEN CodeTokens ELSE LinkTokens) :
        /\ token' = [Token |-> tok, ExpiresAt |-> now + expiresIn, IssuedAt |-> now]
        /\ last' = Called("New", TRUE)
        /\ UNCHANGED <<now, codeSecret, issued, rvars, pvars, cvars>>

\* f.GetCode(codeSecret), on a token minted with useCode.
GetCode ==
    /\ token.Token \in CodeTokens
    /\ issued' = [code |-> TOTPAt(combineSecret(codeSecret, token.Token), now),
                  Token |-> token.Token]
    /\ last' = Called("GetCode", TRUE)
    /\ UNCHANGED <<now, codeSecret, token, rvars, pvars, cvars>>

\* VerifyTokenCode(codeSecret, token, code) with the raw token value of any token
\* and either the last code handed out or a code that matches nothing.
VerifyCode ==
    \E tok \in CodeTokens, offsetChange \in OffsetChanges,
       code \in (IF issued = NoCode THEN {} ELSE {issued.code}) \cup {WrongCode} :
        /\ last' = [op |-> "Verify", Token |-> tok, code |-> code,
                    offsetChange |-> offsetChange,
                    ok |-> VerifyTokenCode(codeSecret, tok, code, now, offsetChange),
                    expiredAt |-> 0]
        /\ UNCHANGED <<now, codeSecret, token, issued, rvars, pvars, cvars>>

\* f.Valid() at the current time; ok is "no error", and the flow-expired error
\* carries f.ExpiresAt.
Valid ==
    /\ token # NoToken
    /\ last' = IF Expired(token, now)
               THEN [Called("Valid", FALSE) EXCEPT !.expiredAt = token.ExpiresAt]
               ELSE Called("Valid", TRUE)
    /\ UNCHANGED <<now, codeSecret, token, issued, rvars, pvars, cvars>>

\* Time passes.
Tick ==
    /\ now + TickStep \in Times
    /\ now' = now + TickStep
    /\ last' = Called("Tick", TRUE)
    /\ UNCHANGED <<codeSecret, token, issued, rvars, pvars, cvars>>

TokenInit ==
    /\ now = FirstDay * Day
    /\ codeSecret \in CodeSecrets
    /\ token = NoToken
    /\ issued = NoCode
    /\ last = Called("Tick", TRUE)

\* The life of a token: minted with any lifespan, checked for expiry as time passes.
TokenNext ==
    \/ \E useCode \in BOOLEAN, expiresIn \in ExpiresIn :
          NewSelfServiceVerificationToken(useCode, expiresIn)
    \/ Valid
    \/ Tick

\* The codes of a flow that uses codes, whose tokens live for one step of the clock.
CodeNext ==
    \/ NewSelfServiceVerificationToken(TRUE, TickStep)
    \/ GetCode
    \/ VerifyCode
    \/ Tick


-----------------------------------------------------------------------------
(* Handler.knownCredentials *)

CredentialsTypePassword == "password"
CredentialsTypeOIDC == "oidc"
CredentialsTypeNone == "none"

\* The request bodies: one that does not decode, and every identifier and method.
Requests ==
    {[malformed |-> TRUE, identifier |-> "", method |-> ""]}
        \cup [malformed : {FALSE}, identifier : {"", "user@x.io"},
              method : {"", CredentialsTypePassword, CredentialsTypeOIDC, "saml"}]

\* What a lookup of the identity pool answers: a row, sqlcon.ErrNoRows, another error.
StoreAnswers == {"found", "ErrNoRows", "error"}

Usernames == {"u1", "u2"}
Providers == {"google", "github"}

\* The credentials of one type an identity holds: <<>> when it holds none, else
\* <<c>> with the identifiers of c or the providers of c's configuration.
PasswordCredentials ==
    {<<>>} \cup {<<[Identifiers |-> ids]>> : ids \in SeqsUpTo(Usernames, MaxIdentifiers)}
OIDCCredentials ==
    {<<>>} \cup {<<[providers |-> ps]>> : ps \in SeqsUpTo(Providers, MaxProviders)}

\* The state of the identity pool a request meets: the answer of
\* FindVerifiableAddressByValue, of GetIdentityConfidential, the credentials of the
\* identity it returns, and the answer of FindByCredentialsIdentifier.
Answers ==
    [address : StoreAnswers, identity : StoreAnswers, password : PasswordCredentials,
     oidc : OIDCCredentials, credentials : StoreAnswers]

NoRequest == [malformed |-> TRUE, identifier |-> "none", method |-> ""]
NoAnswers ==
    [address |-> "ErrNoRows", identity |-> "ErrNoRows", password |-> <<>>, oidc |-> <<>>,
     credentials |-> "ErrNoRows"]
NoResponse ==
    [revision |-> "", status |-> "", found |-> FALSE, methods |-> <<>>, lookups |-> <<>>]

knownCredentialsMethod(method, username, provider) ==
    [method |-> method, username |-> username, provider |-> provider]

knownCredentialsResponse(found, methods) == [found |-> found, methods |-> methods]

\* What the handler did: the status it wrote ("ok" with the discovery result,
\* "bad request", "internal error", or "panic" when it wrote nothing), and the
\* lookups it performed, in order.
Reply(status, result, lookups) ==
    [status |-> status, found |-> result.found, methods |-> result.methods,
     lookups |-> lookups]

\* Mutant: the method filter is not validated.
RejectedEmptyIdentifierOnly(kcr) == kcr.identifier = ""

\* The checks of the request: an empty identifier, a method that is not "", "oidc"
\* or "password" (handler.go, lines 126-134, reads the same).
Rejected(kcr) ==
    \/ kcr.identifier = ""
    \/ /\ kcr.method # ""
       /\ kcr.method # CredentialsTypeOIDC
       /\ kcr.method # CredentialsTypePassword

\* Whether the address lookup lets the request go on: ErrNoRows is "no address"
\* (handler.go, lines 136-144, reads the same).
AddressFails(ans) == ans.address = "error"

\* Whether the identity lookup, made for a found address, aborts the request
\* (handler.go, lines 148-158, reads the same).
IdentityFails(ans) == ans.address = "found" /\ ans.identity = "error"

\* The identity the two lookups resolve: <<>> is nil.
ResolvedIdentity(ans) ==
    IF ans.address = "found" /\ ans.identity = "found"
    THEN <<[password |-> ans.password, oidc |-> ans.oidc]>>
    ELSE <<>>

\* The lookups made before the branches.
ResolveLookups(ans) ==
    IF ans.address = "found"
    THEN <<"FindVerifiableAddressByValue", "GetIdentityConfidential">>
    ELSE <<"FindVerifiableAddressByValue">>

\* identity.GetCredentials(t) on a resolved identity, nil when !ok.
GetCredentials(identity, t) ==
    IF identity = <<>> THEN <<>>
    ELSE IF t = CredentialsTypeOIDC THEN identity[1].oidc ELSE identity[1].password

\* Mutant: the username hint is tried before the direct lookup's answer.
PasswordBranchHintFirst(result, ans, identity, passwordCreds, oidcCreds) ==
    IF identity # <<>> /\ passwordCreds # <<>> /\ Len(passwordCreds[1].Identifiers) > 0
    THEN knownCredentialsResponse(TRUE,
            Append(result.methods,
                   knownCredentialsMethod(CredentialsTypePassword,
                                          passwordCreds[1].Identifiers[1], "")))
    ELSE IF ans.credentials = "found"
    THEN knownCredentialsResponse(TRUE,
            Append(result.methods, knownCredentialsMethod(CredentialsTypePassword, "", "")))
    ELSE result

\* Mutant: the last recorded identifier is disclosed.
PasswordBranchLastIdentifier(result, ans, identity, passwordCreds, oidcCreds) ==
    IF ans.credentials = "found"
    THEN knownCredentialsResponse(TRUE,
            Append(result.methods, knownCredentialsMethod(CredentialsTypePassword, "", "")))
    ELSE IF identity # <<>> /\ passwordCreds # <<>> /\ Len(passwordCreds[1].Identifiers) > 0
    THEN knownCredentialsResponse(TRUE,
            Append(result.methods,
                   knownCredentialsMethod(CredentialsTypePassword,
                       passwordCreds[1].Identifiers[Len(passwordCreds[1].Identifiers)], "")))
    ELSE IF identity # <<>> /\ passwordCreds = <<>> /\ oidcCreds = <<>>
    THEN knownCredentialsResponse(TRUE,
            Append(result.methods, knownCredentialsMethod(CredentialsTypeNone, "", "")))
    ELSE result

\* The password branch of part_001, lines 263-296.
PasswordBranch(result, ans, identity, passwordCreds, oidcCreds) ==
    IF ans.credentials = "found"
    THEN knownCredentialsResponse(TRUE,
            Append(result.methods, knownCredentialsMethod(CredentialsTypePassword, "", "")))
    ELSE IF identity # <<>>
         THEN IF passwordCreds # <<>>
              THEN IF Len(passwordCreds[1].Identifiers) > 0
                   THEN knownCredentialsResponse(TRUE,
                           Append(result.methods,
                                  knownCredentialsMethod(CredentialsTypePassword,
                                                         passwordCreds[1].Identifiers[1], "")))
                   ELSE result
              ELSE IF oidcCreds = <<>>
                   THEN knownCredentialsResponse(TRUE,
                           Append(result.methods,
                                  knownCredentialsMethod(CredentialsTypeNone, "", "")))
                   ELSE result
         ELSE result

\* Mutant: only the first provider of the configuration is reported.
ProviderMethodsFirstOnly(creds) ==
    [k \in 1..(IF Len(creds.providers) > 0 THEN 1 ELSE 0) |->
        knownCredentialsMethod(CredentialsTypeOIDC, "", creds.providers[k])]

\* The entries of the providers of an OIDC credential's configuration.
ProviderMethods(creds) ==
    [k \in 1..Len(creds.providers) |->
        knownCredentialsMethod(CredentialsTypeOIDC, "", creds.providers[k])]

\* Mutant: found is set per provider appended.
OIDCBranchFoundPerProvider(result, identity, passwordCreds, oidcCreds) ==
    IF identity # <<>>
    THEN IF oidcCreds # <<>>
         THEN knownCredentialsResponse(result.found \/ Len(oidcCreds[1].providers) > 0,
                                       result.methods \o ProviderMethods(oidcCreds[1]))
         ELSE IF passwordCreds = <<>> /\ ~result.found
              THEN knownCredentialsResponse(TRUE,
                      Append(result.methods,
                             knownCredentialsMethod(CredentialsTypeNone, "", "")))
              ELSE result
    ELSE result

\* The OIDC branch of part_001, lines 300-321.
OIDCBranch(result, identity, passwordCreds, oidcCreds) ==
    IF identity # <<>>
    THEN IF oidcCreds # <<>>
         THEN knownCredentialsResponse(TRUE, result.methods \o ProviderMethods(oidcCreds[1]))
         ELSE IF passwordCreds = <<>> /\ ~result.found
              THEN knownCredentialsResponse(TRUE,
                      Append(result.methods,
                             knownCredentialsMethod(CredentialsTypeNone, "", "")))
              ELSE result
    ELSE result

Nothing == knownCredentialsResponse(FALSE, <<>>)

\* Handler.knownCredentials of part_001 on request kcr against the pool answers ans.
knownCredentialsReply(kcr, ans) ==
    IF kcr.malformed THEN Reply("bad request", Nothing, <<>>)
    ELSE IF Rejected(kcr) THEN Reply("bad request", Nothing, <<>>)
    ELSE IF AddressFails(ans)
    THEN Reply("internal error", Nothing, <<"FindVerifiableAddressByValue">>)
    ELSE IF IdentityFails(ans) THEN Reply("internal error", Nothing, ResolveLookups(ans))
    ELSE
        LET identity == ResolvedIdentity(ans)
            oidcCreds == GetCredentials(identity, CredentialsTypeOIDC)
            passwordCreds == GetCredentials(identity, CredentialsTypePassword)
            password == kcr.method = CredentialsTypePassword \/ kcr.method = ""
            oidc == kcr.method = CredentialsTypeOIDC \/ kcr.method = ""
            afterPassword ==
                IF password
                THEN PasswordBranch(Nothing, ans, identity, passwordCreds, oidcCreds)
                ELSE Nothing
            afterOIDC ==
                IF oidc
                THEN OIDCBranch(afterPassword, identity, passwordCreds, oidcCreds)
                ELSE afterPassword
        IN Reply("ok", afterOIDC,
                 ResolveLookups(ans)
                     \o (IF password THEN <<"FindByCredentialsIdentifier">> ELSE <<>>))

\* The password branch of handler.go, lines 164-196, when GetCredentials returns:
\* on a nil identity it returns "not ok" when nilReceiver = "absent".
PasswordBranchAlpha1(result, ans, identity) ==
    IF ans.credentials = "found"
    THEN knownCredentialsResponse(TRUE,
            Append(result.methods, knownCredentialsMethod(CredentialsTypePassword, "", "")))
    ELSE LET creds == GetCredentials(identity, CredentialsTypePassword)
         IN IF creds # <<>>
            THEN IF Len(creds[1].Identifiers) > 0
                 THEN knownCredentialsResponse(TRUE,
                         Append(result.methods,
                                knownCredentialsMethod(CredentialsTypePassword,
                                                       creds[1].Identifiers[1], "")))
                 ELSE knownCredentialsResponse(TRUE,
                         Append(result.methods,
                                knownCredentialsMethod(CredentialsTypeNone, "", "")))
            ELSE result

\* The OIDC branch of handler.go, lines 200-221.
OIDCBranchAlpha1(result, identity) ==
    IF identity # <<>>
    THEN LET creds == GetCredentials(identity, CredentialsTypeOIDC)
         IN IF creds # <<>>
            THEN knownCredentialsResponse(TRUE, result.methods \o ProviderMethods(creds[1]))
            ELSE IF ~result.found
                 THEN knownCredentialsResponse(TRUE,
                         Append(result.methods,
                                knownCredentialsMethod(CredentialsTypeNone, "", "")))
                 ELSE result
    ELSE result

\* Handler.knownCredentials of handler.go. Line 173 calls identity.GetCredentials
\* with identity nil when no identity was resolved and the direct lookup did not
\* succeed: the call dereferences nil (nilReceiver = "panic") or answers "not ok"
\* (nilReceiver = "absent").
knownCredentialsAlpha1Reply(kcr, ans, nilReceiver) ==
    IF kcr.malformed THEN Reply("bad request", Nothing, <<>>)
    ELSE IF Rejected(kcr) THEN Reply("bad request", Nothing, <<>>)
    ELSE IF AddressFails(ans)
    THEN Reply("internal error", Nothing, <<"FindVerifiableAddressByValue">>)
    ELSE IF IdentityFails(ans) THEN Reply("internal error", Nothing, ResolveLookups(ans))
    ELSE
        LET identity == ResolvedIdentity(ans)
            password == kcr.method = CredentialsTypePassword \/ kcr.method = ""
            oidc == kcr.method = CredentialsTypeOIDC \/ kcr.method = ""
            lookups ==
                ResolveLookups(ans)
                    \o (IF password THEN <<"FindByCredentialsIdentifier">> ELSE <<>>)
            afterPassword ==
                IF password THEN PasswordBranchAlpha1(Nothing, ans, identity) ELSE Nothing
            afterOIDC ==
                IF oidc THEN OIDCBranchAlpha1(afterPassword, identity) ELSE afterPassword
        IN IF password /\ ans.credentials # "found" /\ identity = <<>>
                       /\ nilReceiver = "panic"
           THEN Reply("panic", Nothing, lookups)
           ELSE Reply("ok", afterOIDC, lookups)

\* POST /credentials/known served by part_001's handler.
knownCredentials ==
    /\ response = NoResponse
    /\ response' = [revision |-> "part_001"] @@ knownCredentialsReply(request, answers)
    /\ UNCHANGED <<request, answers, rvars, tvars, cvars>>

\* POST /credentials/known served by handler.go's handler.
knownCredentialsAlpha1 ==
    /\ response = NoResponse
    /\ \E nilReceiver \in {"absent", "panic"} :
          response' = [revision |-> "handler.go"]
                          @@ knownCredentialsAlpha1Reply(request, answers, nilReceiver)
    /\ UNCHANGED <<request, answers, rvars, tvars, cvars>>

ProbeInit ==
    /\ request \in Requests
    /\ answers \in Answers
    /\ response = NoResponse

ProbeNext == knownCredentials \/ knownCredentialsAlpha1

-----------------------------------------------------------------------------
(* Run called by concurrent threads on one SchemaExtensionVerification *)

Threads == 1..MaxThreads

NoLocal == [todo |-> <<>>, loaded |-> <<>>]

\* Mutant: Run does not take the mutex.
CanLockAlways(holder) == TRUE

\* r.l.Lock() returns once no thread holds the mutex.
CanLock(holder) == holder = 0

\* What one whole Run call leaves in the accumulator.
RunOne(existing, pending, field) ==
    IF field.via = "email" /\ IsEmail(field.value)
    THEN RunEmail(existing, pending, field.value)
    ELSE pending

\* The thread that calls Finish.
Finisher == 0

\* What a read of a slice can see of memory that is not the slice's.
TornAddress == [value |-> "torn", via |-> "torn", verified |-> FALSE]

\* A slice header read while it is written: the elements of one value under the
\* length of the other.
Torn(data, length) ==
    [k \in 1..Len(length) |-> IF k <= Len(data) THEN data[k] ELSE TornAddress]

\* What an unsynchronized read of a slice variable can return while a write of it
\* that replaces old by new is in progress: a data race.
RacyRead(old, new) == {old, new, Torn(old, new), Torn(new, old)}

\* What a Run call can see of r.i.VerifiableAddresses: the list itself, unless the
\* thread that calls Finish is writing it, with no mutex held.
IdentityListSeen ==
    IF Finisher \in DOMAIN pc /\ pc[Finisher] = "publish"
    THEN RacyRead(VerifiableAddresses,
                  FinishList(VerifiableAddresses, local[Finisher].loaded))
    ELSE {VerifiableAddresses}

\* r.l.Lock()
RunLock(t) ==
    /\ pc[t] = "start"
    /\ CanLock(lock)
    /\ lock' = t
    /\ pc' = [pc EXCEPT ![t] = "locked"]
    /\ UNCHANGED <<calls, local, rvars, tvars, pvars>>

\* The switch of Run up to the append: the format check and the two has calls,
\* which read r.i.VerifiableAddresses and r.v.
RunSwitch(t) ==
    /\ pc[t] = "locked"
    /\ \E existing \in IdentityListSeen :
          LET field == calls[t]
              address == NewVerifiableEmailAddress(field.value)
              found == has(existing, address)
              todo == IF field.via = "email" /\ IsEmail(field.value)
                           /\ has(v, address) = <<>>
                      THEN IF found # <<>> THEN found ELSE <<address>>
                      ELSE <<>>
          IN /\ local' = [local EXCEPT ![t].todo = todo]
             /\ pc' = [pc EXCEPT ![t] = IF todo = <<>> THEN "return" ELSE "append"]
    /\ UNCHANGED <<lock, calls, rvars, tvars, pvars>>

\* r.v = append(r.v, ...): the read of r.v.
RunLoad(t) ==
    /\ pc[t] = "append"
    /\ local' = [local EXCEPT ![t].loaded = v]
    /\ pc' = [pc EXCEPT ![t] = "store"]
    /\ UNCHANGED <<lock, calls, rvars, tvars, pvars>>

\* r.v = append(r.v, ...): the write of r.v.
RunStore(t) ==
    /\ pc[t] = "store"
    /\ v' = Append(local[t].loaded, local[t].todo[1])
    /\ pc' = [pc EXCEPT ![t] = "return"]
    /\ UNCHANGED <<VerifiableAddresses, traits, visit, pass, rphase, runErr, pre, finals,
                   lock, calls, local, tvars, pvars>>

\* The deferred r.l.Unlock(), as Run returns.
RunUnlock(t) ==
    /\ pc[t] = "return"
    /\ lock' = IF lock = t THEN 0 ELSE lock
    /\ pc' = [pc EXCEPT ![t] = "done"]
    /\ local' = [local EXCEPT ![t] = NoLocal]
    /\ UNCHANGED <<calls, rvars, tvars, pvars>>

ConcurrentIdle ==
    /\ lock = 0 /\ pc = <<>> /\ calls = <<>> /\ local = <<>>

\* A fresh reconciler of an identity with a pre-existing list, and one Run call per
\* thread.
ConcurrentInit ==
    /\ VerifiableAddresses \in SeqsUpTo(Addresses, MaxPre)
    /\ pre = VerifiableAddresses
    /\ v = <<>> /\ traits = <<>> /\ visit = 1 /\ pass = 1
    /\ rphase = "run" /\ runErr = "nil" /\ finals = <<>>
    /\ lock = 0
    /\ pc = [t \in Threads |-> "start"]
    /\ calls \in [Threads -> Fields]
    /\ local = [t \in Threads |-> NoLocal]
    /\ now = FirstDay * Day /\ codeSecret = "JBSWY3DPEHPK3PXP" /\ token = NoToken
    /\ issued = NoCode /\ last = Called("Tick", TRUE)
    /\ request = NoRequest /\ answers = NoAnswers /\ response = NoResponse

ConcurrentNext ==
    \E t \in Threads :
        RunLock(t) \/ RunSwitch(t) \/ RunLoad(t) \/ RunStore(t) \/ RunUnlock(t)

-----------------------------------------------------------------------------
(* Finish called while Run calls are in progress *)

\* r.i.VerifiableAddresses = r.v: the read of r.v, with no mutex held. It races
\* with the write of r.v of a Run call that is at its append.
FinishLoad ==
    /\ Finisher \in DOMAIN pc
    /\ pc[Finisher] = "finish"
    /\ \E seen \in {v} \cup UNION {RacyRead(v, Append(local[t].loaded, local[t].todo[1])) :
                                      t \in {u \in Threads : pc[u] = "store"}} :
          local' = [local EXCEPT ![Finisher].loaded = seen]
    /\ pc' = [pc EXCEPT ![Finisher] = "publish"]
    /\ UNCHANGED <<lock, calls, rvars, tvars, pvars>>

\* r.i.VerifiableAddresses = r.v: the write of the identity's list.
FinishStore ==
    /\ Finisher \in DOMAIN pc
    /\ pc[Finisher] = "publish"
    /\ VerifiableAddresses' = FinishList(VerifiableAddresses, local[Finisher].loaded)
    /\ pc' = [pc EXCEPT ![Finisher] = "done"]
    /\ UNCHANGED <<v, traits, visit, pass, rphase, runErr, pre, finals,
                   lock, calls, local, tvars, pvars>>

\* A fresh reconciler, one Run call per thread, and a thread that calls Finish.
RaceInit ==
    /\ VerifiableAddresses \in SeqsUpTo(Addresses, MaxPre)
    /\ pre = VerifiableAddresses
    /\ v = <<>> /\ traits = <<>> /\ visit = 1 /\ pass = 1
    /\ rphase = "run" /\ runErr = "nil" /\ finals = <<>>
    /\ lock = 0
    /\ pc = [t \in Threads \cup {Finisher} |-> IF t = Finisher THEN "finish" ELSE "start"]
    /\ calls \in [Threads -> Fields]
    /\ local = [t \in Threads \cup {Finisher} |-> NoLocal]
    /\ now = FirstDay * Day /\ codeSecret = "JBSWY3DPEHPK3PXP" /\ token = NoToken
    /\ issued = NoCode /\ last = Called("Tick", TRUE)
    /\ request = NoRequest /\ answers = NoAnswers /\ response = NoResponse

RaceNext == ConcurrentNext \/ FinishLoad \/ FinishStore

ReconcilerIdle ==
    /\ VerifiableAddresses = <<>> /\ v = <<>> /\ traits = <<>> /\ visit = 1 /\ pass = 1
    /\ rphase = "run" /\ runErr = "nil" /\ pre = <<>> /\ finals = <<>>

TokenIdle ==
    /\ now = FirstDay * Day /\ codeSecret = "JBSWY3DPEHPK3PXP" /\ token = NoToken
    /\ issued = NoCode
    /\ last = Called("Tick", TRUE)

ProbeIdle ==
    /\ request = NoRequest /\ answers = NoAnswers /\ response = NoResponse

ReconcilerInit ==
    /\ VerifiableAddresses \in SeqsUpTo(Addresses, MaxPre)
    /\ traits \in SeqsUpTo(Fields, MaxFields)
    /\ v = <<>>
    /\ visit = 1
    /\ pass = 1
    /\ rphase = "run"
    /\ runErr = "nil"
    /\ pre = VerifiableAddresses
    /\ finals = <<>>
    /\ TokenIdle
    /\ ProbeIdle
    /\ ConcurrentIdle

ReconcilerNext == Run \/ Finish \/ NewSchemaExtensionVerification

-----------------------------------------------------------------------------
(* Properties of the reconciler *)

SameAddress(a, b) == a.value = b.value /\ a.via = b.via

InList(list, a) == \E k \in 1..Len(list) : SameAddress(list[k], a)

NoDuplicates(list) ==
    \A j, k \in 1..Len(list) : SameAddress(list[j], list[k]) => j = k

\* The addresses the valid email fields of the trait document stand for.
VisitedEmails ==
    {Normalize(traits[k].value) : k \in {j \in 1..Len(traits) :
        traits[j].via = "email" /\ IsEmail(traits[j].value)}}

\* C1: after Finish, an address whose (value, via) was in the pre-existing list is
\* an entry of that list, verified flag included (a verified address stays
\* verified), and an address that was not in it is unverified.
C1_VerificationFlagsKept ==
    rphase = "finished" =>
        \A k \in 1..Len(VerifiableAddresses) :
            LET e == VerifiableAddresses[k]
            IN IF InList(pre, e)
               THEN \E j \in 1..Len(pre) : pre[j] = e
               ELSE e.verified = FALSE

\* A pass that kept a verified address and added a new, unverified one.
C1_Witness ==
    /\ rphase = "finished"
    /\ \E k \in 1..Len(VerifiableAddresses) :
          VerifiableAddresses[k].verified /\ InList(pre, VerifiableAddresses[k])
    /\ \E k \in 1..Len(VerifiableAddresses) : ~InList(pre, VerifiableAddresses[k])

\* C2: the accumulator never holds two entries with the same (value, via), neither
\* does the identity's list after Finish, and a Run whose address is already
\* accumulated leaves the accumulator unchanged.
C2_NoDuplicateAddresses ==
    [][/\ NoDuplicates(v')
       /\ (rphase' = "finished" => NoDuplicates(VerifiableAddresses'))
       /\ (/\ visit' = visit + 1
           /\ traits[visit].via = "email"
           /\ IsEmail(traits[visit].value)
           /\ InList(v, NewVerifiableEmailAddress(traits[visit].value))) => v' = v]_vars

\* Two fields of one pass stood for the same address, which the final list holds.
C2_Witness ==
    /\ rphase = "finished"
    /\ \E j, k \in 1..Len(traits) :
          /\ j < k
          /\ traits[j].via = "email" /\ traits[k].via = "email"
          /\ IsEmail(traits[j].value)
          /\ traits[j].value # traits[k].value
          /\ Normalize(traits[j].value) = Normalize(traits[k].value)
          /\ InList(VerifiableAddresses, NewVerifiableEmailAddress(traits[j].value))
    /\ InList(pre, NewVerifiableEmailAddress("a@x.io"))

\* C3: after Finish the identity's list is exactly the distinct valid email
\* addresses the pass visited: a pre-existing address that was not visited is gone.
C3_FinishReplaces ==
    rphase = "finished" =>
        /\ {VerifiableAddresses[k].value : k \in 1..Len(VerifiableAddresses)} = VisitedEmails
        /\ \A k \in 1..Len(VerifiableAddresses) :
              VerifiableAddresses[k].via = VerifiableAddressTypeEmail
        /\ Len(VerifiableAddresses) = Cardinality(VisitedEmails)

\* A verified pre-existing address was dropped while another address was kept.
C3_Witness ==
    /\ rphase = "finished"
    /\ VerifiableAddresses # <<>>
    /\ \E j \in 1..Len(pre) : pre[j].verified /\ ~InList(VerifiableAddresses, pre[j])

\* C4: a second pass over the same traits, starting from the list the first pass
\* produced, produces that list again.
C4_Idempotent ==
    \A p \in 2..Len(finals) : finals[p] = finals[p - 1]

\* The second pass ended with a list of a verified and an unverified address.
C4_Witness ==
    /\ Len(finals) >= 2
    /\ \E j, k \in 1..Len(finals[2]) : finals[2][j].verified /\ ~finals[2][k].verified



-----------------------------------------------------------------------------
(* Properties of the token and its codes *)

\* C5 as amended: Valid fails with the flow-expired error, which carries ExpiresAt,
\* if and only if now > ExpiresAt; at the instant now = ExpiresAt it returns no error.
C5_ExpiredAfterExpiresAt ==
    last.op = "Valid" =>
        /\ ~last.ok <=> now > token.ExpiresAt
        /\ ~last.ok => last.expiredAt = token.ExpiresAt

\* Valid was called at the instant now = ExpiresAt and returned no error.
C5_Witness ==
    /\ last.op = "Valid"
    /\ token.ExpiresAt > token.IssuedAt
    /\ now = token.ExpiresAt
    /\ last.ok

\* C5 as stated: Valid fails if and only if now >= ExpiresAt.
C5_ExpiredFromExpiresAt ==
    last.op = "Valid" => (~last.ok <=> now >= token.ExpiresAt)

\* The code GetCode derives for (secret, tok) in the time step containing t.
DerivedCode(secret, tok, t) == TOTPAt(combineSecret(secret, tok), t)

\* C6: VerifyTokenCode returns true exactly when the code is the one GetCode derives
\* for (secret, token) in the 24-hour window containing now or in the window
\* containing now minus 24h.
C6_AcceptsNowAndNowMinus24h ==
    last.op = "Verify" =>
        (last.ok <=>
            \/ last.code = DerivedCode(codeSecret, last.Token, now)
            \/ last.code = DerivedCode(codeSecret, last.Token, now - Interval))

\* A's code as GetCode returns it now, handed to VerifyTokenCode with the token
\* value of another token B.
CodeOfAnotherToken ==
    /\ last.op = "Verify"
    /\ issued # NoCode
    /\ last.code = issued.code
    /\ issued.code = DerivedCode(codeSecret, issued.Token, now)
    /\ last.Token # issued.Token

\* C7 as amended: the code of token A is accepted with the token value of another
\* token B only when it is one of the two codes VerifyTokenCode derives for B.
C7_TokenBoundUpToCollision ==
    (CodeOfAnotherToken /\ last.ok) =>
        \/ last.code = DerivedCode(codeSecret, last.Token, now)
        \/ last.code = DerivedCode(codeSecret, last.Token,
                                   AddDateMinusOneDay(now, last.offsetChange))

\* The code of one token was handed in with another token's value and refused.
C7_Witness == CodeOfAnotherToken /\ ~last.ok

\* C7 as stated: the code of token A is never accepted with the token value of B.
C7_TokenBound == CodeOfAnotherToken => ~last.ok

-----------------------------------------------------------------------------
(* Properties of knownCredentials *)

Performed(lookup) == \E k \in 1..Len(response.lookups) : response.lookups[k] = lookup

\* C8: a request with an empty identifier, or with a method other than "",
\* "password" or "oidc", is answered bad request, with no lookup performed and no
\* discovery result written.
C8_BadRequestBeforeLookups ==
    (/\ response # NoResponse
     /\ ~request.malformed
     /\ \/ request.identifier = ""
        \/ request.method \notin {"", "password", "oidc"}) =>
        /\ response.status = "bad request"
        /\ response.lookups = <<>>
        /\ ~response.found
        /\ response.methods = <<>>

\* A request for method "saml" was refused although every lookup would have found
\* a row.
C8_Witness ==
    /\ response.status = "bad request"
    /\ request.identifier # ""
    /\ request.method = "saml"
    /\ answers.address = "found" /\ answers.identity = "found"
    /\ answers.credentials = "found"

\* C9: a lookup that fails with an error other than not-found aborts the request
\* with an internal error; no discovery result is written.
C9_LookupFailureAborts ==
    (/\ response # NoResponse
     /\ \/ Performed("FindVerifiableAddressByValue") /\ answers.address = "error"
        \/ Performed("GetIdentityConfidential") /\ answers.identity = "error"
        \/ Performed("FindByCredentialsIdentifier") /\ answers.credentials = "error") =>
        /\ response.status = "internal error"
        /\ ~response.found
        /\ response.methods = <<>>

\* C10: when the address lookup or the identity lookup answers not-found (and no
\* lookup fails otherwise), the request completes with a discovery result; the
\* identity lookup is attempted only when an address was found.
C10_NotFoundIsNoError ==
    (/\ response # NoResponse
     /\ ~request.malformed
     /\ ~Rejected(request)
     /\ answers.address # "error") =>
        /\ Performed("GetIdentityConfidential") <=> answers.address = "found"
        /\ (/\ \/ answers.address = "ErrNoRows"
               \/ answers.address = "found" /\ answers.identity = "ErrNoRows"
            /\ answers.credentials # "error") => response.status = "ok"

\* The request passed the checks and both lookups resolved an identity.
IdentityResolved ==
    /\ ~request.malformed
    /\ ~Rejected(request)
    /\ answers.address = "found"
    /\ answers.identity = "found"

PasswordSelected == request.method = "" \/ request.method = CredentialsTypePassword

OIDCSelected == request.method = "" \/ request.method = CredentialsTypeOIDC

\* The entries of the written method list with the given method, in order.
EntriesOf(method) == SelectSeq(response.methods, LAMBDA e : e.method = method)

\* C11: an identity without password and without OIDC credentials, the direct
\* lookup not succeeding, is answered found=true with exactly one entry, "none",
\* under each of the three filters.
C11_NoCredentialsIsNone ==
    (/\ response # NoResponse
     /\ IdentityResolved
     /\ answers.password = <<>>
     /\ answers.oidc = <<>>
     /\ answers.credentials # "found") =>
        /\ response.status = "ok"
        /\ response.found
        /\ response.methods = <<knownCredentialsMethod(CredentialsTypeNone, "", "")>>

\* C12: with the filter empty or "oidc" and an identity holding OIDC credentials,
\* found is true and the "oidc" entries are the providers of the configuration, in
\* order, each without username.
C12_OneEntryPerProvider ==
    (/\ response # NoResponse
     /\ IdentityResolved
     /\ OIDCSelected
     /\ answers.oidc # <<>>) =>
        /\ response.status = "ok"
        /\ response.found
        /\ Len(EntriesOf(CredentialsTypeOIDC)) = Len(answers.oidc[1].providers)
        /\ \A k \in 1..Len(answers.oidc[1].providers) :
              /\ EntriesOf(CredentialsTypeOIDC)[k].provider = answers.oidc[1].providers[k]
              /\ EntriesOf(CredentialsTypeOIDC)[k].username = ""

\* Two providers, under the empty filter, after a direct lookup that succeeded.
C12_Witness ==
    /\ response.status = "ok"
    /\ IdentityResolved
    /\ request.method = ""
    /\ answers.oidc = <<[providers |-> <<"google", "github">>]>>
    /\ answers.credentials = "found"
    /\ Len(response.methods) = 3

\* C13: with the filter empty or "password" and a direct lookup that succeeds,
\* found is true and the password branch adds exactly one entry, "password" without
\* username and provider, whatever the address and identity lookups resolved; no
\* username and no "none" entry is recorded.
C13_DirectLookupIsPassword ==
    (/\ response # NoResponse
     /\ Performed("FindByCredentialsIdentifier")
     /\ answers.credentials = "found") =>
        /\ PasswordSelected
        /\ response.status = "ok"
        /\ response.found
        /\ response.methods[1] = knownCredentialsMethod(CredentialsTypePassword, "", "")
        /\ Len(EntriesOf(CredentialsTypePassword)) = 1
        /\ EntriesOf(CredentialsTypeNone) = <<>>

\* The direct lookup succeeded for an identifier whose identity, resolved through
\* its address, holds password credentials with a recorded identifier.
C13_Witness ==
    /\ response.status = "ok"
    /\ IdentityResolved
    /\ request.method = CredentialsTypePassword
    /\ answers.credentials = "found"
    /\ answers.password # <<>>
    /\ Len(answers.password[1].Identifiers) > 0
    /\ Len(response.methods) = 1

\* No identity was resolved: the address or its identity was not found.
NoIdentity ==
    /\ ~request.malformed
    /\ ~Rejected(request)
    /\ \/ answers.address = "ErrNoRows"
       \/ answers.address = "found" /\ answers.identity = "ErrNoRows"

\* C14: found=false with an empty method list when no identity is resolved and the
\* direct lookup finds nothing, and when the identity holds only credentials of the
\* method the filter does not select.
C14_NothingFound ==
    (/\ response # NoResponse
     /\ \/ NoIdentity /\ (PasswordSelected => answers.credentials = "ErrNoRows")
        \/ /\ IdentityResolved
           /\ request.method = CredentialsTypePassword
           /\ answers.password = <<>> /\ answers.oidc # <<>>
           /\ answers.credentials = "ErrNoRows"
        \/ /\ IdentityResolved
           /\ request.method = CredentialsTypeOIDC
           /\ answers.password # <<>> /\ answers.oidc = <<>>) =>
        /\ response.status = "ok"
        /\ ~response.found
        /\ response.methods = <<>>

\* C17: a "none" entry is recorded only for a resolved identity that holds neither
\* password nor OIDC credentials.
C17_NoneOnlyWithoutCredentials ==
    (/\ response # NoResponse
     /\ EntriesOf(CredentialsTypeNone) # <<>>) =>
        /\ IdentityResolved
        /\ answers.password = <<>>
        /\ answers.oidc = <<>>

\* The request is one for which the username hint is due.
UsernameDue ==
    /\ IdentityResolved
    /\ PasswordSelected
    /\ answers.credentials # "found"
    /\ answers.password # <<>>
    /\ Len(answers.password[1].Identifiers) > 0

\* C18: the username hint: when it is due, found is true and exactly one "password"
\* entry is recorded, with the first recorded identifier as username; no entry
\* carries a username in any other case.
C18_UsernameHint ==
    response # NoResponse =>
        /\ UsernameDue =>
              /\ response.status = "ok"
              /\ response.found
              /\ EntriesOf(CredentialsTypePassword) =
                    <<knownCredentialsMethod(CredentialsTypePassword,
                                             answers.password[1].Identifiers[1], "")>>
        /\ (\E k \in 1..Len(response.methods) : response.methods[k].username # "") =>
              UsernameDue

\* The first of two different identifiers is the username written.
C18_Witness ==
    /\ response.status = "ok"
    /\ UsernameDue
    /\ answers.password[1].Identifiers = <<"u2", "u1">>
    /\ response.methods[1].username = "u2"

\* C15: every token NewSelfServiceVerificationToken returns, for any useCode and
\* expiresIn, has IssuedAt = creation time, ExpiresAt = IssuedAt + expiresIn and
\* ExpiresAt > IssuedAt.
C15_ExpiresAfterIssued ==
    [][\A useCode \in BOOLEAN, expiresIn \in ExpiresIn :
          NewSelfServiceVerificationToken(useCode, expiresIn) =>
              /\ token'.IssuedAt = now
              /\ token'.ExpiresAt = token'.IssuedAt + expiresIn
              /\ token'.ExpiresAt > token'.IssuedAt]_vars

\* C19: Run returns an error exactly for an email field whose value is not an
\* email (format) and for a channel that is neither "email" nor empty (unknown
\* channel); in both cases and for the empty channel the accumulator is unchanged;
\* a valid email field yields no error.
C19_RunErrors ==
    [][Run =>
          LET s == traits[visit].via
              value == traits[visit].value
          IN /\ runErr' = "format" <=> (s = "email" /\ ~IsEmail(value))
             /\ runErr' = "unknown via" <=> (s # "email" /\ s # "")
             /\ runErr' \in {"nil", "format", "unknown via"}
             /\ (runErr' # "nil" \/ s = "") => v' = v
             /\ (s = "email" /\ IsEmail(value)) => runErr' = "nil"]_vars

\* A field of an unknown channel was refused after an address had been accumulated.
C19_Witness ==
    /\ rphase = "run"
    /\ visit > 2
    /\ runErr = "unknown via"
    /\ v # <<>>
    /\ \E k \in 1..(visit - 1) : traits[k].via = "email" /\ ~IsEmail(traits[k].value)

\* C20: Run leaves the identity's list as it was when the pass began; the list
\* changes only in Finish, in one step, to the whole accumulator.
C20_OnlyFinishPublishes ==
    [][/\ Run => VerifiableAddresses' = VerifiableAddresses
       /\ rphase' = "run" => VerifiableAddresses' = pre'
       /\ VerifiableAddresses' # VerifiableAddresses =>
             /\ rphase = "run" /\ rphase' = "finished"
             /\ visit > Len(traits)
             /\ VerifiableAddresses' = v
             /\ v' = v]_vars

\* Every field was visited, one of them refused, the accumulator differs from the
\* identity's list, and Finish has not been called.
C20_Witness ==
    /\ rphase = "run"
    /\ visit > Len(traits)
    /\ Len(traits) >= 2
    /\ \E k \in 1..Len(traits) : RunError(traits[k].via, traits[k].value) # "nil"
    /\ v # <<>>
    /\ pre # <<>>
    /\ v # VerifiableAddresses
    /\ VerifiableAddresses = pre

\* The OIDC branch runs for a resolved identity whose OIDC credential's
\* configuration names no provider.
NoProviderConfigured ==
    /\ IdentityResolved
    /\ OIDCSelected
    /\ answers.oidc # <<>>
    /\ Len(answers.oidc[1].providers) = 0

\* C21 as amended: in every discovery result written, a non-empty method list comes
\* with found=true, and found=true comes with a non-empty method list except when
\* the OIDC branch ran for an OIDC credential without providers.
C21_FoundIffMethodsOrNoProvider ==
    response.status = "ok" =>
        /\ response.methods # <<>> => response.found
        /\ response.found <=> (response.methods # <<>> \/ NoProviderConfigured)

\* found=true was written with no method, for an OIDC credential without providers.
C21_Witness ==
    /\ response.status = "ok"
    /\ response.found
    /\ response.methods = <<>>
    /\ NoProviderConfigured

\* C21 as stated: found is true if and only if the method list is non-empty.
C21_FoundIffMethods ==
    response.status = "ok" => (response.found <=> response.methods # <<>>)

-----------------------------------------------------------------------------
(* Properties of concurrent Run calls *)

\* The orders in which the threads of S can run one after the other.
OrdersOf(S) ==
    {o \in [1..Cardinality(S) -> S] : \A j, k \in 1..Cardinality(S) : o[j] = o[k] => j = k}

RECURSIVE RunInOrder(_, _, _, _)
\* The accumulator after the Run calls of the threads of order, from its k-th on,
\* one after the other.
RunInOrder(existing, pending, order, k) ==
    IF k > Len(order)
    THEN pending
    ELSE RunInOrder(existing, RunOne(existing, pending, calls[order[k]]), order, k + 1)

\* The threads whose Run call has returned.
Returned == {t \in Threads : pc[t] = "done"}

\* C16: concurrent Run calls are serialized by the mutex: whenever no call is in
\* progress, the accumulator is what the returned calls leave when run one after
\* the other in some order, and it holds no (value, via) twice.
C16_RunsSerialized ==
    /\ \A t \in Threads : pc[t] \in {"locked", "append", "store", "return"} => lock = t
    /\ (\A t \in Threads : pc[t] \in {"start", "done"}) =>
          /\ \E order \in OrdersOf(Returned) :
                v = RunInOrder(VerifiableAddresses, <<>>, order, 1)
          /\ NoDuplicates(v)

\* Every thread has returned; two of them ran with the same address, and the
\* accumulator holds it once, next to a second address.
C16_Witness ==
    /\ \A t \in Threads : pc[t] = "done"
    /\ \E s, t \in Threads :
          /\ s # t
          /\ calls[s].via = "email" /\ calls[t].via = "email"
          /\ IsEmail(calls[s].value)
          /\ Normalize(calls[s].value) = Normalize(calls[t].value)
    /\ Len(v) = 1

-----------------------------------------------------------------------------
(* Properties of Finish racing with Run *)

\* The lists the Run calls of some of the threads leave, run one after the other.
SerialAccumulators ==
    {RunInOrder(pre, <<>>, order, 1) : order \in UNION {OrdersOf(S) : S \in SUBSET Threads}}

\* C22: Finish reads the accumulator and writes the identity's list with the mutex
\* held, and the list it publishes while Run calls are in progress is the
\* accumulator before or after each of them, never an intermediate one.
C22_FinishUnderMutex ==
    Finisher \in DOMAIN pc =>
        /\ pc[Finisher] = "publish" => lock = Finisher
        /\ pc[Finisher] = "done" => VerifiableAddresses \in SerialAccumulators

SpecReconciler == ReconcilerInit /\ [][ReconcilerNext]_vars

InitToken == TokenInit /\ ReconcilerIdle /\ ProbeIdle /\ ConcurrentIdle

InitProbe == ProbeInit /\ ReconcilerIdle /\ TokenIdle /\ ConcurrentIdle

SpecToken == InitToken /\ [][TokenNext]_vars

SpecProbe == InitProbe /\ [][ProbeNext]_vars

SpecCode == InitToken /\ [][CodeNext]_vars

SpecConcurrent == ConcurrentInit /\ [][ConcurrentNext]_vars

SpecRace == RaceInit /\ [][RaceNext]_vars

=============================================================================
